---- MODULE Spec2Model ----
(***************************************************************************)
(* Model of pieces of the metadata-ingestion layer:                        *)
(*   - datahub/configuration/time_window_config.py          SpecTime,      *)
(*                                                           SpecBucket    *)
(*   - datahub/ingestion/source/state/                                     *)
(*         redundant_run_skip_handler.py                     SpecSkip      *)
(*   - datahub/ingestion/source/bigquery_v2/bigquery_schema.py             *)
(*         (table and view scans)                            SpecScan      *)
(*         (column fetches)                                  SpecColumns   *)
(*   - datahub/ingestion/source/snowflake/snowflake_report.py              *)
(*                                                           SpecReport    *)
(* Each piece has its own specification; under it the variables of the     *)
(* other pieces stay at their idle values.                                 *)
(***************************************************************************)
EXTENDS Integers, Sequences, FiniteSets, TLC

VARIABLES
    tw_pc,          \* "idle" | "new" | "valid" | "error" | "loop" | "returned"
    tw_bucket,      \* bucket_duration given to BaseTimeWindowConfig
    tw_start_in,    \* start_time as given: <<>> (not given) or <<datetime>>
    tw_end_in,      \* end_time as given (a datetime)
    tw_config,      \* <<>> or <<the constructed config>>
    tw_error,       \* "none" | "ValidationError" | "KeyError"
    tw_call,        \* "none" | "buckets" | "majority_buckets": the method called
    tw_curr_bucket, \* its local curr_bucket
    tw_result,      \* its local buckets, the list it returns
    gtb_pc,         \* "idle" | "ready" | "once" | "twice": calls of get_time_bucket
    gtb_original,   \* the argument of get_time_bucket
    gtb_bucketing,  \* its bucketing
    gtb_result,     \* the results so far: <<>>, <<r>>, <<r, get_time_bucket(r)>>
    h_pc,                       \* "idle" | "run": a RedundantRunSkipHandler exists
    platform,                   \* <<>> or <<the source's platform name>>
    pipeline_name,              \* <<>> (None) or <<name>>
    run_id,                     \* the run's id: 1, 2, ...
    checkpointing_enabled,      \* state_provider.is_stateful_ingestion_configured()
    stateful_ingestion_config,  \* <<>> (None) or <<[ignore_old_state, ignore_new_state]>>
    last_checkpoints,           \* state provider: job id -> <<>> or <<checkpoint>> of the last run
    cur_checkpoints,            \* state provider: job id -> <<>> or <<checkpoint>> of this run
    h_op,                       \* the handler method called last in this run, or "none"
    h_args,                     \* its arguments
    h_ret,                      \* <<>> or <<its return value>>
    h_raised,                   \* "none" or the exception it raised
    h_calls,                    \* the state-provider methods it called
    h_last_update,              \* <<>> or the arguments of this run's last update_state call
    h_prev,                     \* what earlier runs left as the last checkpoint
    bq_pc,          \* "idle" | "created" | "iter" | "done" | "raised": the generator
    bq_fn,          \* "get_tables_for_dataset" | "get_views_for_dataset"
    bq_query_ok,    \* whether the query of the scan succeeds
    bq_cur,         \* the rows the query returns
    bq_idx,         \* the row the for loop takes next
    bq_tables,      \* the names of the tables argument (TableListItem by name)
    bq_report,      \* whether a report was passed
    bq_yielded,     \* what the generator has yielded
    bq_log,         \* logger.warning calls
    bq_warnings,    \* report.report_warning calls
    rep_pc,             \* "idle" | "live": a SnowflakeV2Report exists
    tables_scanned,     \* SnowflakeV2Report fields
    views_scanned,
    schemas_scanned,
    databases_scanned,
    tags_scanned,
    scanned_tags,       \* _scanned_tags
    processed_tags,     \* _processed_tags
    rep_op,             \* the last call: <<>> or <<method, name, ent_type>>
    rep_raised,         \* "none" or the exception the last call raised
    rep_calls,          \* how many calls were made
    rep_count,          \* ent_type -> how many calls were made with it
    rep_tag_names,      \* the names reported with ent_type "tag"
    col_pc,             \* "idle" | "called" | "iter" | "returned" | "raised"
    col_fn,             \* "get_columns_for_dataset" | "get_columns_for_table"
    col_query_ok,       \* whether get_query_result succeeds
    col_cur,            \* the rows the query returns
    col_limit,          \* column_limit: <<>> (None) or <<n>>
    col_idx,            \* the row the for loop takes next
    col_columns,        \* the local columns: a dict or a list
    col_last_seen_table,\* the local last_seen_table
    col_log,            \* logger.warning calls
    col_ret             \* what the call returned

tw_vars == <<tw_pc, tw_bucket, tw_start_in, tw_end_in, tw_config, tw_error,
             tw_call, tw_curr_bucket, tw_result>>
gtb_vars == <<gtb_pc, gtb_original, gtb_bucketing, gtb_result>>
h_vars == <<h_pc, platform, pipeline_name, run_id, checkpointing_enabled,
            stateful_ingestion_config, last_checkpoints, cur_checkpoints,
            h_op, h_args, h_ret, h_raised, h_calls, h_last_update, h_prev>>
bq_vars == <<bq_pc, bq_fn, bq_query_ok, bq_cur, bq_idx, bq_tables, bq_report,
             bq_yielded, bq_log, bq_warnings>>
rep_fields == <<tables_scanned, views_scanned, schemas_scanned,
                databases_scanned, tags_scanned, scanned_tags, processed_tags>>
rep_vars == <<rep_pc, rep_fields, rep_op, rep_raised, rep_calls, rep_count,
              rep_tag_names>>
col_vars == <<col_pc, col_fn, col_query_ok, col_cur, col_limit, col_idx,
              col_columns, col_last_seen_table, col_log, col_ret>>
vars == <<tw_vars, gtb_vars, h_vars, bq_vars, rep_vars, col_vars>>

----------------------------------------------------------------------------
\* Bounds of the model.

\* Days are counted from 2024-01-01 (day 0); inputs take days 0..MaxDay.
MaxDay == 2

\* Timestamps in milliseconds given to the skip handler are 1..MaxMillis
\* (cur_start_time_millis, a plain int, also takes 0).
MaxMillis == 3

\* Consecutive runs of the pipeline.
MaxRuns == 3

\* Rows in the result of a BigQuery information-schema query.
MaxRows == 3

\* Calls made on one SnowflakeV2Report.
MaxCalls == 4

\* Rows in the result of a columns query, and the largest column_limit.
MaxColumnRows == 5
MaxColumnLimit == 2

----------------------------------------------------------------------------
\* datetime / timedelta arithmetic (Python's datetime module), field by field.

BucketDuration == {"DAY", "HOUR"}

\* timezone.utc, another fixed offset, and a naive datetime's tzinfo (None).
utc == "UTC"
TzInfos == {utc, "+01:00", "naive"}

datetime(d, h, m, s, us, tz) ==
    [day |-> d, hour |-> h, minute |-> m, second |-> s, microsecond |-> us,
     tzinfo |-> tz]

\* timedelta normalises to days, 0 <= seconds < 86400, 0 <= microseconds < 10^6.
timedelta(d, s, us) ==
    LET s2 == s + (us \div 1000000)
    IN  [days |-> d + (s2 \div 86400), seconds |-> s2 % 86400,
         microseconds |-> us % 1000000]

SecondOfDay(dt) == (dt.hour * 60 + dt.minute) * 60 + dt.second

\* datetime + timedelta: wall-clock arithmetic, tzinfo kept.
DtAdd(dt, td) ==
    LET us == dt.microsecond + td.microseconds
        s  == SecondOfDay(dt) + td.seconds + (us \div 1000000)
        sd == s % 86400
    IN  [day |-> dt.day + td.days + (s \div 86400),
         hour |-> sd \div 3600, minute |-> (sd % 3600) \div 60,
         second |-> sd % 60, microsecond |-> us % 1000000,
         tzinfo |-> dt.tzinfo]

\* datetime - timedelta
DtSubTd(dt, td) == DtAdd(dt, timedelta(-td.days, -td.seconds, -td.microseconds))

\* datetime - datetime (both of the same tzinfo)
DtDiff(a, b) ==
    timedelta(a.day - b.day, SecondOfDay(a) - SecondOfDay(b),
              a.microsecond - b.microsecond)

\* a < b on datetimes of the same tzinfo
DtLess(a, b) ==
    \/ a.day < b.day
    \/ a.day = b.day /\ SecondOfDay(a) < SecondOfDay(b)
    \/ a.day = b.day /\ SecondOfDay(a) = SecondOfDay(b)
         /\ a.microsecond < b.microsecond

DtMax(a, b) == IF DtLess(a, b) THEN b ELSE a
DtMin(a, b) == IF DtLess(b, a) THEN b ELSE a

\* a >= b on timedeltas
TdGeq(a, b) ==
    \/ a.days > b.days
    \/ a.days = b.days /\ a.seconds > b.seconds
    \/ a.days = b.days /\ a.seconds = b.seconds
         /\ a.microseconds >= b.microseconds

\* timedelta / 2, rounded half-to-even to the microsecond
TdHalf(td) ==
    LET s  == (td.days % 2) * 86400 + td.seconds
        us == (s % 2) * 1000000 + td.microseconds
        q  == us \div 2
        qr == IF us % 2 = 1 /\ q % 2 = 1 THEN q + 1 ELSE q
    IN  timedelta(td.days \div 2, s \div 2, qr)

----------------------------------------------------------------------------
\* time_window_config.py

\* get_time_bucket whose day branch forgets hour=0.
get_time_bucket_keep_hour(original, bucketing) ==
    IF bucketing = "HOUR"
    THEN [original EXCEPT !.minute = 0, !.second = 0, !.microsecond = 0]
    ELSE [original EXCEPT !.minute = 0, !.second = 0, !.microsecond = 0]

\* Floors the timestamp to the closest day or hour.
get_time_bucket(original, bucketing) ==
    IF bucketing = "HOUR"
    THEN [original EXCEPT !.minute = 0, !.second = 0, !.microsecond = 0]
    ELSE [original EXCEPT !.hour = 0, !.minute = 0, !.second = 0,
                          !.microsecond = 0]

get_bucket_duration_delta(bucketing) ==
    IF bucketing = "HOUR" THEN timedelta(0, 3600, 0) ELSE timedelta(1, 0, 0)

\* What a validator does: return a value or raise.
Return(v) == [raised |-> "none", value |-> <<v>>]
Raise(e) == [raised |-> e, value |-> <<>>]

\* default_start_time that floors end_time itself, one bucket too late.
default_start_time_no_delta(v, values) ==
    IF v # <<>>
    THEN Return(v[1])
    ELSE IF "end_time" \notin DOMAIN values
         THEN Raise("KeyError")
         ELSE Return(get_time_bucket(values["end_time"],
                                     values["bucket_duration"]))

\* @validator("start_time", pre=True, always=True): v is <<>> when start_time
\* is not given; values holds the fields validated before start_time.
default_start_time(v, values) ==
    IF v # <<>>
    THEN Return(v[1])
    ELSE IF "end_time" \notin DOMAIN values
         THEN Raise("KeyError")
         ELSE Return(get_time_bucket(
                  DtSubTd(values["end_time"],
                          get_bucket_duration_delta(values["bucket_duration"])),
                  values["bucket_duration"]))

\* @validator("start_time", "end_time")
ensure_timestamps_in_utc(v) ==
    IF v.tzinfo # utc THEN Raise("ValueError") ELSE Return(v)

\* Construction of a BaseTimeWindowConfig: the fields are validated in the
\* order of their declaration (bucket_duration, end_time, start_time); a field
\* whose validator raised ValueError is reported and left out of values; any
\* other exception leaves the constructor as it is.
BaseTimeWindowConfig(bucket, start, end) ==
    LET end_v   == ensure_timestamps_in_utc(end)
        values  == IF end_v.raised = "none"
                   THEN [bucket_duration |-> bucket, end_time |-> end_v.value[1]]
                   ELSE [bucket_duration |-> bucket]
        pre     == default_start_time(start, values)
        start_v == IF pre.raised = "none"
                   THEN ensure_timestamps_in_utc(pre.value[1])
                   ELSE pre
    IN  IF pre.raised = "KeyError"
        THEN [error |-> "KeyError", config |-> <<>>]
        ELSE IF end_v.raised # "none" \/ start_v.raised # "none"
             THEN [error |-> "ValidationError", config |-> <<>>]
             ELSE [error |-> "none",
                   config |-> <<[bucket_duration |-> bucket,
                                 start_time |-> start_v.value[1],
                                 end_time |-> end_v.value[1]]>>]

\* buckets() and majority_buckets() before their while loop.
loop_init(self) ==
    [curr_bucket |-> get_time_bucket(self.start_time, self.bucket_duration),
     buckets |-> <<>>]

\* A loop condition that wants the whole bucket before end_time.
loop_while_whole_bucket(self, curr_bucket) ==
    DtLess(DtAdd(curr_bucket, get_bucket_duration_delta(self.bucket_duration)),
           self.end_time)

\* A loop condition that lets a bucket start at end_time.
loop_while_inclusive(self, curr_bucket) == ~DtLess(self.end_time, curr_bucket)

\* The condition of both while loops: curr_bucket < self.end_time.
loop_while(self, curr_bucket) == DtLess(curr_bucket, self.end_time)

\* The body of the while loop of buckets().
buckets_body(self, curr_bucket, acc) ==
    [curr_bucket |->
         DtAdd(curr_bucket, get_bucket_duration_delta(self.bucket_duration)),
     buckets |-> Append(acc, curr_bucket)]

\* The body with a strict comparison: exactly half a bucket is not enough.
majority_body_strict(self, curr_bucket, acc) ==
    LET bucket_timedelta == get_bucket_duration_delta(self.bucket_duration)
        start == DtMax(self.start_time, curr_bucket)
        end   == DtMin(self.end_time, DtAdd(curr_bucket, bucket_timedelta))
    IN  [curr_bucket |-> DtAdd(curr_bucket, bucket_timedelta),
         buckets |-> IF ~TdGeq(TdHalf(bucket_timedelta), DtDiff(end, start))
                     THEN Append(acc, curr_bucket)
                     ELSE acc]

\* The body of the while loop of majority_buckets().
majority_body(self, curr_bucket, acc) ==
    LET bucket_timedelta == get_bucket_duration_delta(self.bucket_duration)
        start == DtMax(self.start_time, curr_bucket)
        end   == DtMin(self.end_time, DtAdd(curr_bucket, bucket_timedelta))
    IN  [curr_bucket |-> DtAdd(curr_bucket, bucket_timedelta),
         buckets |-> IF TdGeq(DtDiff(end, start), TdHalf(bucket_timedelta))
                     THEN Append(acc, curr_bucket)
                     ELSE acc]

----------------------------------------------------------------------------
\* Inputs of the time-window model.

Hours == {0, 5, 12, 13, 23}
Minutes == {0, 30}
\* <<second, microsecond>>
SubMinutes == {<<0, 0>>, <<59, 999999>>}

DateTimes ==
    {datetime(d, h, m, sm[1], sm[2], tz) :
        d \in 0..MaxDay, h \in Hours, m \in Minutes, sm \in SubMinutes,
        tz \in TzInfos}

TwIdle ==
    /\ tw_pc = "idle"
    /\ tw_bucket = "DAY"
    /\ tw_start_in = <<>>
    /\ tw_end_in = datetime(0, 0, 0, 0, 0, utc)
    /\ tw_config = <<>>
    /\ tw_error = "none"
    /\ tw_call = "none"
    /\ tw_curr_bucket = datetime(0, 0, 0, 0, 0, utc)
    /\ tw_result = <<>>

GtbIdle ==
    /\ gtb_pc = "idle"
    /\ gtb_original = datetime(0, 0, 0, 0, 0, utc)
    /\ gtb_bucketing = "DAY"
    /\ gtb_result = <<>>

----------------------------------------------------------------------------
\* SpecTime: construct a config, then call buckets() / majority_buckets().

TwInit ==
    /\ tw_pc = "new"
    /\ tw_bucket \in BucketDuration
    /\ tw_start_in \in {<<>>} \cup {<<t>> : t \in DateTimes}
    /\ tw_end_in \in DateTimes
    /\ tw_config = <<>>
    /\ tw_error = "none"
    /\ tw_call = "none"
    /\ tw_curr_bucket = datetime(0, 0, 0, 0, 0, utc)
    /\ tw_result = <<>>

Construct ==
    /\ tw_pc = "new"
    /\ LET r == BaseTimeWindowConfig(tw_bucket, tw_start_in, tw_end_in)
       IN  /\ tw_pc' = IF r.error = "none" THEN "valid" ELSE "error"
           /\ tw_config' = r.config
           /\ tw_error' = r.error
    /\ UNCHANGED <<tw_bucket, tw_start_in, tw_end_in, tw_call, tw_curr_bucket,
                   tw_result>>
    /\ UNCHANGED <<gtb_vars, h_vars, bq_vars, rep_vars, col_vars>>

TwGiven == <<tw_bucket, tw_start_in, tw_end_in, tw_config, tw_error>>

\* A call of buckets() or of majority_buckets(), up to the while loop.
Call(method) ==
    /\ tw_pc = "valid"
    /\ tw_pc' = "loop"
    /\ tw_call' = method
    /\ LET l == loop_init(tw_config[1])
       IN  /\ tw_curr_bucket' = l.curr_bucket
           /\ tw_result' = l.buckets
    /\ UNCHANGED TwGiven
    /\ UNCHANGED <<gtb_vars, h_vars, bq_vars, rep_vars, col_vars>>

CallBuckets == Call("buckets")

CallMajorityBuckets == Call("majority_buckets")

\* One iteration of the while loop.
Iterate(l) ==
    /\ tw_pc = "loop"
    /\ loop_while(tw_config[1], tw_curr_bucket)
    /\ tw_curr_bucket' = l.curr_bucket
    /\ tw_result' = l.buckets
    /\ UNCHANGED <<TwGiven, tw_pc, tw_call>>
    /\ UNCHANGED <<gtb_vars, h_vars, bq_vars, rep_vars, col_vars>>

BucketsIterate ==
    /\ tw_call = "buckets"
    /\ Iterate(buckets_body(tw_config[1], tw_curr_bucket, tw_result))

MajorityIterate ==
    /\ tw_call = "majority_buckets"
    /\ Iterate(majority_body(tw_config[1], tw_curr_bucket, tw_result))

\* The loop condition fails: return buckets.
LoopReturn ==
    /\ tw_pc = "loop"
    /\ ~loop_while(tw_config[1], tw_curr_bucket)
    /\ tw_pc' = "returned"
    /\ UNCHANGED <<TwGiven, tw_call, tw_curr_bucket, tw_result>>
    /\ UNCHANGED <<gtb_vars, h_vars, bq_vars, rep_vars, col_vars>>

----------------------------------------------------------------------------
\* SpecBucket: get_time_bucket applied to a timestamp, then to its own result.

GtbInit ==
    /\ gtb_pc = "ready"
    /\ gtb_original \in DateTimes
    /\ gtb_bucketing \in BucketDuration
    /\ gtb_result = <<>>

GetTimeBucket ==
    /\ gtb_pc = "ready"
    /\ gtb_pc' = "once"
    /\ gtb_result' = <<get_time_bucket(gtb_original, gtb_bucketing)>>
    /\ UNCHANGED <<gtb_original, gtb_bucketing>>
    /\ UNCHANGED <<tw_vars, h_vars, bq_vars, rep_vars, col_vars>>

GetTimeBucketAgain ==
    /\ gtb_pc = "once"
    /\ gtb_pc' = "twice"
    /\ gtb_result' = Append(gtb_result,
                            get_time_bucket(gtb_result[1], gtb_bucketing))
    /\ UNCHANGED <<gtb_original, gtb_bucketing>>
    /\ UNCHANGED <<tw_vars, h_vars, bq_vars, rep_vars, col_vars>>


----------------------------------------------------------------------------
\* redundant_run_skip_handler.py

INVALID_TIMESTAMP_VALUE == 1

Platforms == {<<>>, <<"Snowflake">>, <<"BigQuery">>}

init_job_id(platform_name) ==
    IF platform_name = <<"Snowflake">>
    THEN "snowflake_usage_ingestion"
    ELSE IF platform_name # <<>>
         THEN platform_name[1] \o "_skip_redundant_run"
         ELSE "skip_redundant_run"

JobIds == {init_job_id(p) : p \in Platforms}

job_id == init_job_id(platform)

BaseUsageCheckpointState(begin, end) ==
    [begin_timestamp_millis |-> begin, end_timestamp_millis |-> end]

Checkpoint(job, pipeline, run, state) ==
    [job_name |-> job, pipeline_name |-> pipeline, run_id |-> run,
     state |-> <<state>>]

ignore_old_state ==
    /\ stateful_ingestion_config # <<>>
    /\ stateful_ingestion_config[1].ignore_old_state

ignore_new_state ==
    /\ stateful_ingestion_config # <<>>
    /\ stateful_ingestion_config[1].ignore_new_state

is_checkpointing_enabled == checkpointing_enabled

\* create_checkpoint that tests ignore_old_state instead of ignore_new_state.
create_checkpoint_old_flag ==
    IF ~is_checkpointing_enabled \/ ignore_old_state
    THEN [raised |-> "none", value |-> <<>>]
    ELSE IF pipeline_name = <<>>
         THEN [raised |-> "AssertionError", value |-> <<>>]
         ELSE [raised |-> "none",
               value |-> <<Checkpoint(job_id, pipeline_name[1], run_id,
                               BaseUsageCheckpointState(
                                   INVALID_TIMESTAMP_VALUE,
                                   INVALID_TIMESTAMP_VALUE))>>]

\* value is <<>> for None.
create_checkpoint ==
    IF ~is_checkpointing_enabled \/ ignore_new_state
    THEN [raised |-> "none", value |-> <<>>]
    ELSE IF pipeline_name = <<>>
         THEN [raised |-> "AssertionError", value |-> <<>>]
         ELSE [raised |-> "none",
               value |-> <<Checkpoint(job_id, pipeline_name[1], run_id,
                               BaseUsageCheckpointState(
                                   INVALID_TIMESTAMP_VALUE,
                                   INVALID_TIMESTAMP_VALUE))>>]

\* State provider: the checkpoint of this run for the job, created through the
\* handler's create_checkpoint the first time it is asked for. The result is
\* the provider's map of current checkpoints after the call.
get_current_checkpoint(job) ==
    IF cur_checkpoints[job] # <<>>
    THEN cur_checkpoints
    ELSE [cur_checkpoints EXCEPT ![job] = create_checkpoint.value]

\* State provider: the checkpoint the last run committed for the job.
get_last_checkpoint(job) == last_checkpoints[job]

\* update_state that stores the end of the range in both fields.
update_state_end_only(start_time_millis, end_time_millis) ==
    IF ~is_checkpointing_enabled \/ ignore_new_state
    THEN [raised |-> "none", cur |-> cur_checkpoints, calls |-> {}]
    ELSE LET provided == get_current_checkpoint(job_id)
             cur_checkpoint == provided[job_id]
         IN  IF cur_checkpoint = <<>>
             THEN [raised |-> "AssertionError", cur |-> provided,
                   calls |-> {"get_current_checkpoint"}]
             ELSE [raised |-> "none",
                   cur |-> [provided EXCEPT ![job_id] =
                              <<[cur_checkpoint[1] EXCEPT !.state =
                                   <<BaseUsageCheckpointState(
                                         end_time_millis, end_time_millis)>>]>>],
                   calls |-> {"get_current_checkpoint"}]

\* update_state with the two timestamps exchanged.
update_state_swapped(start_time_millis, end_time_millis) ==
    IF ~is_checkpointing_enabled \/ ignore_new_state
    THEN [raised |-> "none", cur |-> cur_checkpoints, calls |-> {}]
    ELSE LET provided == get_current_checkpoint(job_id)
             cur_checkpoint == provided[job_id]
         IN  IF cur_checkpoint = <<>>
             THEN [raised |-> "AssertionError", cur |-> provided,
                   calls |-> {"get_current_checkpoint"}]
             ELSE [raised |-> "none",
                   cur |-> [provided EXCEPT ![job_id] =
                              <<[cur_checkpoint[1] EXCEPT !.state =
                                   <<BaseUsageCheckpointState(
                                         end_time_millis, start_time_millis)>>]>>],
                   calls |-> {"get_current_checkpoint"}]

\* cur is the provider's map of current checkpoints after the call.
update_state(start_time_millis, end_time_millis) ==
    IF ~is_checkpointing_enabled \/ ignore_new_state
    THEN [raised |-> "none", cur |-> cur_checkpoints, calls |-> {}]
    ELSE LET provided == get_current_checkpoint(job_id)
             cur_checkpoint == provided[job_id]
         IN  IF cur_checkpoint = <<>>
             THEN [raised |-> "AssertionError", cur |-> provided,
                   calls |-> {"get_current_checkpoint"}]
             ELSE [raised |-> "none",
                   cur |-> [provided EXCEPT ![job_id] =
                              <<[cur_checkpoint[1] EXCEPT
                                   !.state[1].begin_timestamp_millis =
                                       start_time_millis,
                                   !.state[1].end_timestamp_millis =
                                       end_time_millis]>>],
                   calls |-> {"get_current_checkpoint"}]

\* should_skip_this_run that fetches the last checkpoint before it looks at
\* the flags.
should_skip_this_run_eager(cur_start_time_millis) ==
    LET last_checkpoint == get_last_checkpoint(job_id)
        last_end ==
            IF last_checkpoint # <<>> /\ last_checkpoint[1].state # <<>>
            THEN <<last_checkpoint[1].state[1].end_timestamp_millis>>
            ELSE <<>>
    IN  IF ~is_checkpointing_enabled \/ ignore_old_state
        THEN [result |-> FALSE, calls |-> {"get_last_checkpoint"}]
        ELSE [result |-> /\ last_end # <<>>
                         /\ cur_start_time_millis <= last_end[1],
              calls |-> {"get_last_checkpoint"}]

\* should_skip_this_run with a strict comparison.
should_skip_this_run_strict(cur_start_time_millis) ==
    IF ~is_checkpointing_enabled \/ ignore_old_state
    THEN [result |-> FALSE, calls |-> {}]
    ELSE LET last_checkpoint == get_last_checkpoint(job_id)
             last_end ==
                 IF last_checkpoint # <<>> /\ last_checkpoint[1].state # <<>>
                 THEN <<last_checkpoint[1].state[1].end_timestamp_millis>>
                 ELSE <<>>
         IN  [result |-> /\ last_end # <<>>
                         /\ cur_start_time_millis < last_end[1],
              calls |-> {"get_last_checkpoint"}]

should_skip_this_run(cur_start_time_millis) ==
    IF ~is_checkpointing_enabled \/ ignore_old_state
    THEN [result |-> FALSE, calls |-> {}]
    ELSE LET last_checkpoint == get_last_checkpoint(job_id)
             \* last_successful_pipeline_run_end_time_millis: <<>> is None
             last_end ==
                 IF last_checkpoint # <<>> /\ last_checkpoint[1].state # <<>>
                 THEN <<last_checkpoint[1].state[1].end_timestamp_millis>>
                 ELSE <<>>
         IN  [result |-> /\ last_end # <<>>
                         /\ cur_start_time_millis <= last_end[1],
              calls |-> {"get_last_checkpoint"}]

\* The end of a run: the run's checkpoint, when there is one, becomes the
\* job's last checkpoint (the single persisted record per job id).
commit_checkpoints ==
    [j \in JobIds |->
        IF cur_checkpoints[j] # <<>> THEN cur_checkpoints[j]
        ELSE last_checkpoints[j]]

----------------------------------------------------------------------------
\* SpecSkip: a handler per run; runs follow one another and share the state
\* provider's persisted checkpoints.

Millis == 1..MaxMillis

Configs ==
    {<<>>} \cup {<<[ignore_old_state |-> o, ignore_new_state |-> n]>> :
                    o \in BOOLEAN, n \in BOOLEAN}

NoCheckpoints == [j \in JobIds |-> <<>>]

\* A checkpoint whose state could not be read back.
StatelessCheckpoint(job) ==
    [job_name |-> job, pipeline_name |-> "pipeline", run_id |-> 0,
     state |-> <<>>]

\* Before the first run the handler's job has no last checkpoint, or one
\* without a state; the other jobs have one that ends at MaxMillis.
InitialLast(own) ==
    {[j \in JobIds |->
         IF j = own THEN c
         ELSE <<Checkpoint(j, "pipeline", 0,
                  BaseUsageCheckpointState(MaxMillis, MaxMillis))>>] :
        c \in {<<>>, <<StatelessCheckpoint(own)>>}}

HIdle ==
    /\ h_pc = "idle"
    /\ platform = <<>>
    /\ pipeline_name = <<>>
    /\ run_id = 1
    /\ checkpointing_enabled = FALSE
    /\ stateful_ingestion_config = <<>>
    /\ last_checkpoints = NoCheckpoints
    /\ cur_checkpoints = NoCheckpoints
    /\ h_op = "none"
    /\ h_args = <<>>
    /\ h_ret = <<>>
    /\ h_raised = "none"
    /\ h_calls = {}
    /\ h_last_update = <<>>
    /\ h_prev = [stored |-> FALSE, update |-> <<>>]

\* Stateful ingestion cannot be configured without a pipeline name.
HInit ==
    /\ h_pc = "run"
    /\ platform \in Platforms
    /\ checkpointing_enabled \in BOOLEAN
    /\ pipeline_name \in
           IF checkpointing_enabled THEN {<<"pipeline">>}
           ELSE {<<>>, <<"pipeline">>}
    /\ run_id = 1
    /\ stateful_ingestion_config \in Configs
    /\ last_checkpoints \in InitialLast(init_job_id(platform))
    /\ cur_checkpoints = NoCheckpoints
    /\ h_op = "none"
    /\ h_args = <<>>
    /\ h_ret = <<>>
    /\ h_raised = "none"
    /\ h_calls = {}
    /\ h_last_update = <<>>
    /\ h_prev = [stored |-> FALSE, update |-> <<>>]

HandlerFields == <<h_pc, platform, pipeline_name, run_id, checkpointing_enabled,
                   stateful_ingestion_config>>

\* h_ret holds the returned value: <<>> for None, or <<checkpoint>>.
CreateCheckpoint ==
    /\ h_pc = "run"
    /\ LET r == create_checkpoint
       IN  /\ h_ret' = <<r.value>>
           /\ h_raised' = r.raised
    /\ h_op' = "create_checkpoint"
    /\ h_args' = <<>>
    /\ h_calls' = {}
    /\ UNCHANGED <<HandlerFields, last_checkpoints, cur_checkpoints,
                   h_last_update, h_prev>>
    /\ UNCHANGED <<tw_vars, gtb_vars, bq_vars, rep_vars, col_vars>>

UpdateState(start_time_millis, end_time_millis) ==
    /\ h_pc = "run"
    /\ LET r == update_state(start_time_millis, end_time_millis)
       IN  /\ cur_checkpoints' = r.cur
           /\ h_raised' = r.raised
           /\ h_calls' = r.calls
    /\ h_op' = "update_state"
    /\ h_args' = <<start_time_millis, end_time_millis>>
    /\ h_ret' = <<>>
    /\ h_last_update' = <<start_time_millis, end_time_millis>>
    /\ UNCHANGED <<HandlerFields, last_checkpoints, h_prev>>
    /\ UNCHANGED <<tw_vars, gtb_vars, bq_vars, rep_vars, col_vars>>

ShouldSkipThisRun(cur_start_time_millis) ==
    /\ h_pc = "run"
    /\ LET r == should_skip_this_run(cur_start_time_millis)
       IN  /\ h_ret' = <<r.result>>
           /\ h_calls' = r.calls
    /\ h_op' = "should_skip_this_run"
    /\ h_args' = <<cur_start_time_millis>>
    /\ h_raised' = "none"
    /\ UNCHANGED <<HandlerFields, last_checkpoints, cur_checkpoints,
                   h_last_update, h_prev>>
    /\ UNCHANGED <<tw_vars, gtb_vars, bq_vars, rep_vars, col_vars>>

\* The run ends and commits; the next run builds a new handler on the same
\* source and provider, with the flags of its own recipe.
NextRun ==
    /\ h_pc = "run"
    /\ run_id < MaxRuns
    /\ run_id' = run_id + 1
    /\ stateful_ingestion_config' \in Configs
    /\ last_checkpoints' = commit_checkpoints
    /\ cur_checkpoints' = NoCheckpoints
    /\ h_prev' = IF cur_checkpoints[job_id] # <<>>
                 THEN [stored |-> TRUE, update |-> h_last_update]
                 ELSE h_prev
    /\ h_op' = "none"
    /\ h_args' = <<>>
    /\ h_ret' = <<>>
    /\ h_raised' = "none"
    /\ h_calls' = {}
    /\ h_last_update' = <<>>
    /\ UNCHANGED <<h_pc, platform, pipeline_name, checkpointing_enabled>>
    /\ UNCHANGED <<tw_vars, gtb_vars, bq_vars, rep_vars, col_vars>>


----------------------------------------------------------------------------
\* bigquery_schema.py: the table and view scans of BigQueryDataDictionary.

project_id == "project"
dataset_name == "dataset"

\* datetime.fromtimestamp(ms / 1000, tz=timezone.utc), in seconds since the epoch
fromtimestamp_millis(ms) == ms \div 1000

\* A row whose fields make the mapping raise is marked malformed.
make_bigquery_table(table, table_basic) ==
    IF table.malformed
    THEN Raise("Exception")
    ELSE Return([name |-> table.table_name,
                 created |-> table.created,
                 last_altered |->
                     IF table.last_altered # <<>>
                     THEN fromtimestamp_millis(table.last_altered[1])
                     ELSE table.created,
                 has_table_basic |-> table_basic # <<>>])

make_bigquery_view(view) ==
    IF view.malformed
    THEN Raise("Exception")
    ELSE Return([name |-> view.table_name,
                 created |-> view.created,
                 last_altered |->
                     IF view.last_altered # <<>>
                     THEN fromtimestamp_millis(view.last_altered[1])
                     ELSE view.created,
                 materialized |-> view.table_type = "MATERIALIZED VIEW"])

\* tables.get(name)
tables_get(tables, name) == IF name \in tables THEN <<name>> ELSE <<>>

\* The body of the for loop without its try/except: the exception leaves the
\* generator.
get_tables_for_dataset_row_no_except(table, tables, report) ==
    LET made == make_bigquery_table(table, tables_get(tables, table.table_name))
    IN  IF made.raised = "none"
        THEN [raised |-> "none", yield |-> made.value, log |-> <<>>,
              warnings |-> <<>>]
        ELSE [raised |-> made.raised, yield |-> <<>>, log |-> <<>>,
              warnings |-> <<>>]

\* The body of the for loop of get_tables_for_dataset, for one row.
get_tables_for_dataset_row(table, tables, report) ==
    LET made == make_bigquery_table(table, tables_get(tables, table.table_name))
        table_name ==
            project_id \o "." \o dataset_name \o "." \o table.table_name
    IN  IF made.raised = "none"
        THEN [raised |-> "none", yield |-> made.value, log |-> <<>>,
              warnings |-> <<>>]
        ELSE [raised |-> "none", yield |-> <<>>,
              log |-> <<"Error while processing table " \o table_name>>,
              warnings |->
                  IF report
                  THEN <<"Failed to get table " \o table_name>>
                  ELSE <<>>]

\* The body of the for loop of get_views_for_dataset, for one row.
get_views_for_dataset_row(table, report) ==
    LET made == make_bigquery_view(table)
        view_name ==
            project_id \o "." \o dataset_name \o "." \o table.table_name
    IN  IF made.raised = "none"
        THEN [raised |-> "none", yield |-> made.value, log |-> <<>>,
              warnings |-> <<>>]
        ELSE [raised |-> "none", yield |-> <<>>,
              log |-> <<"Error while processing view " \o view_name>>,
              warnings |->
                  IF report
                  THEN <<"Failed to get view " \o view_name>>
                  ELSE <<>>]

----------------------------------------------------------------------------
\* SpecScan: one call of get_tables_for_dataset or get_views_for_dataset,
\* consumed to its end.

TableNames == {"a", "b"}

Rows ==
    {[table_name |-> n, created |-> 1, last_altered |-> la,
      table_type |-> IF n = "a" THEN "VIEW" ELSE "MATERIALIZED VIEW",
      malformed |-> m] :
        n \in TableNames, la \in {<<>>, <<2000>>}, m \in BOOLEAN}

RowSeqs == UNION {[1..n -> Rows] : n \in 0..MaxRows}

BqIdle ==
    /\ bq_pc = "idle"
    /\ bq_fn = "get_tables_for_dataset"
    /\ bq_query_ok = TRUE
    /\ bq_cur = <<>>
    /\ bq_idx = 1
    /\ bq_tables = {}
    /\ bq_report = FALSE
    /\ bq_yielded = <<>>
    /\ bq_log = <<>>
    /\ bq_warnings = <<>>

BqInit ==
    /\ bq_pc = "created"
    /\ bq_fn \in {"get_tables_for_dataset", "get_views_for_dataset"}
    /\ bq_query_ok \in BOOLEAN
    /\ bq_cur \in RowSeqs
    /\ bq_idx = 1
    /\ bq_tables \in {{}, {"a"}}
    /\ bq_report \in BOOLEAN
    /\ bq_yielded = <<>>
    /\ bq_log = <<>>
    /\ bq_warnings = <<>>

BqInputs == <<bq_fn, bq_query_ok, bq_cur, bq_tables, bq_report>>

\* get_query_result: the query runs when the generator is first advanced; its
\* failure is not caught.
RunQuery ==
    /\ bq_pc = "created"
    /\ bq_pc' = IF bq_query_ok THEN "iter" ELSE "raised"
    /\ UNCHANGED <<BqInputs, bq_idx, bq_yielded, bq_log, bq_warnings>>
    /\ UNCHANGED <<tw_vars, gtb_vars, h_vars, rep_vars, col_vars>>

ScanRow(r) ==
    /\ bq_pc' = IF r.raised = "none" THEN "iter" ELSE "raised"
    /\ bq_idx' = bq_idx + 1
    /\ bq_yielded' = bq_yielded \o r.yield
    /\ bq_log' = bq_log \o r.log
    /\ bq_warnings' = bq_warnings \o r.warnings
    /\ UNCHANGED BqInputs
    /\ UNCHANGED <<tw_vars, gtb_vars, h_vars, rep_vars, col_vars>>

TablesRow ==
    /\ bq_pc = "iter"
    /\ bq_fn = "get_tables_for_dataset"
    /\ bq_idx <= Len(bq_cur)
    /\ ScanRow(get_tables_for_dataset_row(bq_cur[bq_idx], bq_tables, bq_report))

ViewsRow ==
    /\ bq_pc = "iter"
    /\ bq_fn = "get_views_for_dataset"
    /\ bq_idx <= Len(bq_cur)
    /\ ScanRow(get_views_for_dataset_row(bq_cur[bq_idx], bq_report))

\* The for loop is exhausted: the generator returns.
ScanEnd ==
    /\ bq_pc = "iter"
    /\ bq_idx > Len(bq_cur)
    /\ bq_pc' = "done"
    /\ UNCHANGED <<BqInputs, bq_idx, bq_yielded, bq_log, bq_warnings>>
    /\ UNCHANGED <<tw_vars, gtb_vars, h_vars, rep_vars, col_vars>>

----------------------------------------------------------------------------
\* snowflake_report.py: SnowflakeV2Report.

\* The fields of the report that report_entity_scanned and report_tag_processed
\* touch, as a record.
self_report ==
    [tables_scanned |-> tables_scanned, views_scanned |-> views_scanned,
     schemas_scanned |-> schemas_scanned,
     databases_scanned |-> databases_scanned, tags_scanned |-> tags_scanned,
     scanned_tags |-> scanned_tags, processed_tags |-> processed_tags]

is_tag_scanned(self, tag_name) == tag_name \in self.scanned_tags

is_tag_processed(self, tag_name) == tag_name \in self.processed_tags

\* report_entity_scanned that counts a tag every time it is reported.
report_entity_scanned_no_dedup(self, name, ent_type) ==
    IF ent_type = "table"
    THEN [raised |-> "none",
          self |-> [self EXCEPT !.tables_scanned = @ + 1]]
    ELSE IF ent_type = "view"
    THEN [raised |-> "none",
          self |-> [self EXCEPT !.views_scanned = @ + 1]]
    ELSE IF ent_type = "schema"
    THEN [raised |-> "none",
          self |-> [self EXCEPT !.schemas_scanned = @ + 1]]
    ELSE IF ent_type = "database"
    THEN [raised |-> "none",
          self |-> [self EXCEPT !.databases_scanned = @ + 1]]
    ELSE IF ent_type = "tag"
    THEN [raised |-> "none",
          self |-> [self EXCEPT !.scanned_tags = @ \cup {name},
                                !.tags_scanned = @ + 1]]
    ELSE [raised |-> "KeyError", self |-> self]

\* report_entity_scanned whose view branch counts a table.
report_entity_scanned_view_as_table(self, name, ent_type) ==
    IF ent_type = "table"
    THEN [raised |-> "none",
          self |-> [self EXCEPT !.tables_scanned = @ + 1]]
    ELSE IF ent_type = "view"
    THEN [raised |-> "none",
          self |-> [self EXCEPT !.tables_scanned = @ + 1]]
    ELSE IF ent_type = "schema"
    THEN [raised |-> "none",
          self |-> [self EXCEPT !.schemas_scanned = @ + 1]]
    ELSE IF ent_type = "database"
    THEN [raised |-> "none",
          self |-> [self EXCEPT !.databases_scanned = @ + 1]]
    ELSE IF ent_type = "tag"
    THEN IF is_tag_scanned(self, name)
         THEN [raised |-> "none", self |-> self]
         ELSE [raised |-> "none",
               self |-> [self EXCEPT !.scanned_tags = @ \cup {name},
                                     !.tags_scanned = @ + 1]]
    ELSE [raised |-> "KeyError", self |-> self]

\* report_entity_scanned that counts an unknown entity type as a table.
report_entity_scanned_unknown_as_table(self, name, ent_type) ==
    IF ent_type = "view"
    THEN [raised |-> "none",
          self |-> [self EXCEPT !.views_scanned = @ + 1]]
    ELSE IF ent_type = "schema"
    THEN [raised |-> "none",
          self |-> [self EXCEPT !.schemas_scanned = @ + 1]]
    ELSE IF ent_type = "database"
    THEN [raised |-> "none",
          self |-> [self EXCEPT !.databases_scanned = @ + 1]]
    ELSE IF ent_type = "tag"
    THEN IF is_tag_scanned(self, name)
         THEN [raised |-> "none", self |-> self]
         ELSE [raised |-> "none",
               self |-> [self EXCEPT !.scanned_tags = @ \cup {name},
                                     !.tags_scanned = @ + 1]]
    ELSE [raised |-> "none",
          self |-> [self EXCEPT !.tables_scanned = @ + 1]]

\* self is the report after the call.
report_entity_scanned(self, name, ent_type) ==
    IF ent_type = "table"
    THEN [raised |-> "none",
          self |-> [self EXCEPT !.tables_scanned = @ + 1]]
    ELSE IF ent_type = "view"
    THEN [raised |-> "none",
          self |-> [self EXCEPT !.views_scanned = @ + 1]]
    ELSE IF ent_type = "schema"
    THEN [raised |-> "none",
          self |-> [self EXCEPT !.schemas_scanned = @ + 1]]
    ELSE IF ent_type = "database"
    THEN [raised |-> "none",
          self |-> [self EXCEPT !.databases_scanned = @ + 1]]
    ELSE IF ent_type = "tag"
    THEN IF is_tag_scanned(self, name)
         THEN [raised |-> "none", self |-> self]
         ELSE [raised |-> "none",
               self |-> [self EXCEPT !.scanned_tags = @ \cup {name},
                                     !.tags_scanned = @ + 1]]
    ELSE [raised |-> "KeyError", self |-> self]

\* The default of the ent_type parameter.
default_ent_type == "table"

report_tag_processed(self, tag_name) ==
    [self EXCEPT !.processed_tags = @ \cup {tag_name}]

----------------------------------------------------------------------------
\* SpecReport: one SnowflakeV2Report and the calls made on it during a run.

EntityNames == {"n1", "n2"}

KnownEntTypes == {"table", "view", "schema", "database", "tag"}

\* The entity types callers pass: the five the report knows and one it does not.
EntTypes == KnownEntTypes \cup {"column"}

RepIdle ==
    /\ rep_pc = "idle"
    /\ tables_scanned = 0
    /\ views_scanned = 0
    /\ schemas_scanned = 0
    /\ databases_scanned = 0
    /\ tags_scanned = 0
    /\ scanned_tags = {}
    /\ processed_tags = {}
    /\ rep_op = <<>>
    /\ rep_raised = "none"
    /\ rep_calls = 0
    /\ rep_count = [t \in KnownEntTypes |-> 0]
    /\ rep_tag_names = {}

\* SnowflakeV2Report(): every counter 0, both sets empty. tables_scanned and
\* views_scanned are fields of the base report class, 0 by default as well.
RepInit ==
    /\ rep_pc = "live"
    /\ tables_scanned = 0
    /\ views_scanned = 0
    /\ schemas_scanned = 0
    /\ databases_scanned = 0
    /\ tags_scanned = 0
    /\ scanned_tags = {}
    /\ processed_tags = {}
    /\ rep_op = <<>>
    /\ rep_raised = "none"
    /\ rep_calls = 0
    /\ rep_count = [t \in KnownEntTypes |-> 0]
    /\ rep_tag_names = {}

SetReport(self) ==
    /\ tables_scanned' = self.tables_scanned
    /\ views_scanned' = self.views_scanned
    /\ schemas_scanned' = self.schemas_scanned
    /\ databases_scanned' = self.databases_scanned
    /\ tags_scanned' = self.tags_scanned
    /\ scanned_tags' = self.scanned_tags
    /\ processed_tags' = self.processed_tags

\* given is <<>> when the caller leaves ent_type to its default.
EntityScanned(name, ent_type, given) ==
    /\ rep_pc = "live"
    /\ rep_calls < MaxCalls
    /\ LET r == report_entity_scanned(self_report, name, ent_type)
       IN  /\ SetReport(r.self)
           /\ rep_raised' = r.raised
    /\ rep_op' = <<"report_entity_scanned", name, given>>
    /\ rep_calls' = rep_calls + 1
    /\ rep_count' = IF ent_type \in KnownEntTypes
                    THEN [rep_count EXCEPT ![ent_type] = @ + 1]
                    ELSE rep_count
    /\ rep_tag_names' = IF ent_type = "tag"
                        THEN rep_tag_names \cup {name}
                        ELSE rep_tag_names
    /\ UNCHANGED rep_pc
    /\ UNCHANGED <<tw_vars, gtb_vars, h_vars, bq_vars, col_vars>>

ReportEntityScanned(name, ent_type) ==
    EntityScanned(name, ent_type, <<ent_type>>)

ReportEntityScannedDefault(name) ==
    EntityScanned(name, default_ent_type, <<>>)

ReportTagProcessed(tag_name) ==
    /\ rep_pc = "live"
    /\ rep_calls < MaxCalls
    /\ SetReport(report_tag_processed(self_report, tag_name))
    /\ rep_raised' = "none"
    /\ rep_op' = <<"report_tag_processed", tag_name, <<>> >>
    /\ rep_calls' = rep_calls + 1
    /\ UNCHANGED <<rep_pc, rep_count, rep_tag_names>>
    /\ UNCHANGED <<tw_vars, gtb_vars, h_vars, bq_vars, col_vars>>

----------------------------------------------------------------------------
\* bigquery_schema.py: the column fetches of BigQueryDataDictionary.

\* BigqueryColumn(...) of a result row; field_path, data_type and comment are
\* copied as they are and left out.
BigqueryColumn(column) ==
    [name |-> column.column_name,
     ordinal_position |-> column.ordinal_position,
     is_nullable |-> column.is_nullable = "YES",
     is_partition_column |-> column.is_partitioning_column = "YES"]

\* column_limit as a condition: None and 0 are false.
limit_set(column_limit) == column_limit # <<>> /\ column_limit[1] # 0

\* defaultdict(list): columns = {} is the function of empty domain.
EmptyDict == [n \in {} |-> <<>>]

\* columns[key] of the defaultdict, read.
dict_item(columns, key) ==
    IF key \in DOMAIN columns THEN columns[key] ELSE <<>>

\* columns[key].append(value)
dict_append(columns, key, value) ==
    [n \in DOMAIN columns \cup {key} |->
        IF n = key THEN dict_item(columns, key) \o <<value>> ELSE columns[n]]

LimitWarning(table_name) ==
    [msg |-> "contains more than column_limit columns",
     table_name |-> table_name]

QueryFailedWarning ==
    [msg |-> "Columns for dataset query failed with exception",
     table_name |-> ""]

\* The loop body of get_columns_for_dataset without the test of the limit:
\* every row is kept.
get_columns_for_dataset_row_no_limit(column, columns, last_seen_table, column_limit) ==
    [raised |-> "none",
     columns |-> dict_append(columns, column.table_name,
                             BigqueryColumn(column)),
     last_seen_table |-> last_seen_table, log |-> <<>>]

\* The loop body of get_columns_for_dataset without the test of
\* last_seen_table: it logs for every dropped row.
get_columns_for_dataset_row_warn_always(column, columns, last_seen_table, column_limit) ==
    IF /\ limit_set(column_limit)
       /\ column.table_name \in DOMAIN columns
       /\ Len(columns[column.table_name]) >= column_limit[1]
    THEN [raised |-> "none", columns |-> columns,
          last_seen_table |-> column.table_name,
          log |-> <<LimitWarning(column.table_name)>>]
    ELSE [raised |-> "none",
          columns |-> dict_append(columns, column.table_name,
                                  BigqueryColumn(column)),
          last_seen_table |-> last_seen_table, log |-> <<>>]

\* The body of the for loop of get_columns_for_dataset, for one row.
get_columns_for_dataset_row(column, columns, last_seen_table, column_limit) ==
    IF /\ limit_set(column_limit)
       /\ column.table_name \in DOMAIN columns
       /\ Len(columns[column.table_name]) >= column_limit[1]
    THEN IF last_seen_table # column.table_name
         THEN [raised |-> "none", columns |-> columns,
               last_seen_table |-> column.table_name,
               log |-> <<LimitWarning(column.table_name)>>]
         ELSE [raised |-> "none", columns |-> columns,
               last_seen_table |-> last_seen_table, log |-> <<>>]
    ELSE [raised |-> "none",
          columns |-> dict_append(columns, column.table_name,
                                  BigqueryColumn(column)),
          last_seen_table |-> last_seen_table, log |-> <<>>]

\* A str compared with a BigqueryColumn: neither class's __eq__ accepts the
\* other, so == is false.
str_eq_column(name, c) == FALSE

\* name in columns, for the list of get_columns_for_table
list_contains(columns, name) ==
    \E i \in 1..Len(columns) : str_eq_column(name, columns[i])

\* The body of the for loop of get_columns_for_table, for one row. columns is
\* a list here: indexing it with the table name would raise TypeError.
get_columns_for_table_row(column, columns, last_seen_table, column_limit) ==
    IF limit_set(column_limit) /\ list_contains(columns, column.table_name)
    THEN [raised |-> "TypeError", columns |-> columns,
          last_seen_table |-> last_seen_table, log |-> <<>>]
    ELSE [raised |-> "none",
          columns |-> Append(columns, BigqueryColumn(column)),
          last_seen_table |-> column.table_name, log |-> <<>>]

\* What a call returns.
Returned(kind, value) == [kind |-> kind, value |-> value]
NotReturned == Returned("unset", <<>>)

\* get_columns_for_dataset without its except clause: the exception of
\* get_query_result leaves the call.
get_columns_for_dataset_query_failed_reraise ==
    [raised |-> "Exception", ret |-> NotReturned, log |-> <<>>]

\* get_columns_for_dataset once get_query_result has raised: the except
\* clause logs and returns None.
get_columns_for_dataset_query_failed ==
    [raised |-> "none", ret |-> Returned("None", <<>>),
     log |-> <<QueryFailedWarning>>]

----------------------------------------------------------------------------
\* SpecColumns: one call of get_columns_for_dataset or get_columns_for_table.

ColumnNames == {"x", "y"}

ColumnRows ==
    {[table_name |-> t, column_name |-> c,
      ordinal_position |-> IF c = "x" THEN 1 ELSE 2,
      is_nullable |-> IF c = "x" THEN "YES" ELSE "NO",
      is_partitioning_column |-> IF c = "x" THEN "NO" ELSE "YES"] :
        t \in TableNames, c \in ColumnNames}

ColumnRowSeqs(rows) == UNION {[1..n -> rows] : n \in 0..MaxColumnRows}

\* The table of table_identifier: columns_for_table selects its rows only.
table_identifier_table == "a"

ColIdle ==
    /\ col_pc = "idle"
    /\ col_fn = "get_columns_for_dataset"
    /\ col_query_ok = TRUE
    /\ col_cur = <<>>
    /\ col_limit = <<0>>
    /\ col_idx = 1
    /\ col_columns = <<>>
    /\ col_last_seen_table = ""
    /\ col_log = <<>>
    /\ col_ret = NotReturned

\* get_columns_for_dataset takes an int column_limit, get_columns_for_table an
\* Optional[int].
ColInit ==
    /\ col_pc = "called"
    /\ col_fn \in {"get_columns_for_dataset", "get_columns_for_table"}
    /\ col_query_ok \in BOOLEAN
    /\ col_cur \in
           IF col_fn = "get_columns_for_dataset"
           THEN ColumnRowSeqs(ColumnRows)
           ELSE ColumnRowSeqs({r \in ColumnRows :
                                   r.table_name = table_identifier_table})
    /\ col_limit \in
           {<<n>> : n \in 0..MaxColumnLimit} \cup
               (IF col_fn = "get_columns_for_table" THEN {<<>>} ELSE {})
    /\ col_idx = 1
    /\ col_columns =
           IF col_fn = "get_columns_for_dataset" THEN EmptyDict ELSE <<>>
    /\ col_last_seen_table = ""
    /\ col_log = <<>>
    /\ col_ret = NotReturned

ColInputs == <<col_fn, col_query_ok, col_cur, col_limit>>

\* get_query_result in get_columns_for_dataset, inside its try.
DatasetQuery ==
    /\ col_pc = "called"
    /\ col_fn = "get_columns_for_dataset"
    /\ IF col_query_ok
       THEN /\ col_pc' = "iter"
            /\ UNCHANGED <<col_log, col_ret>>
       ELSE LET r == get_columns_for_dataset_query_failed
            IN  /\ col_pc' = IF r.raised = "none" THEN "returned" ELSE "raised"
                /\ col_log' = col_log \o r.log
                /\ col_ret' = r.ret
    /\ UNCHANGED <<ColInputs, col_idx, col_columns, col_last_seen_table>>
    /\ UNCHANGED <<tw_vars, gtb_vars, h_vars, bq_vars, rep_vars>>

\* get_query_result in get_columns_for_table: its failure is not caught.
TableQuery ==
    /\ col_pc = "called"
    /\ col_fn = "get_columns_for_table"
    /\ col_pc' = IF col_query_ok THEN "iter" ELSE "raised"
    /\ UNCHANGED <<ColInputs, col_idx, col_columns, col_last_seen_table,
                   col_log, col_ret>>
    /\ UNCHANGED <<tw_vars, gtb_vars, h_vars, bq_vars, rep_vars>>

ColumnRow(r) ==
    /\ col_pc' = IF r.raised = "none" THEN "iter" ELSE "raised"
    /\ col_idx' = col_idx + 1
    /\ col_columns' = r.columns
    /\ col_last_seen_table' = r.last_seen_table
    /\ col_log' = col_log \o r.log
    /\ UNCHANGED <<ColInputs, col_ret>>
    /\ UNCHANGED <<tw_vars, gtb_vars, h_vars, bq_vars, rep_vars>>

DatasetRow ==
    /\ col_pc = "iter"
    /\ col_fn = "get_columns_for_dataset"
    /\ col_idx <= Len(col_cur)
    /\ ColumnRow(get_columns_for_dataset_row(
           col_cur[col_idx], col_columns, col_last_seen_table, col_limit))

TableRow ==
    /\ col_pc = "iter"
    /\ col_fn = "get_columns_for_table"
    /\ col_idx <= Len(col_cur)
    /\ ColumnRow(get_columns_for_table_row(
           col_cur[col_idx], col_columns, col_last_seen_table, col_limit))

\* return columns
ColumnsReturn ==
    /\ col_pc = "iter"
    /\ col_idx > Len(col_cur)
    /\ col_pc' = "returned"
    /\ col_ret' = Returned(IF col_fn = "get_columns_for_dataset"
                           THEN "dict" ELSE "list", col_columns)
    /\ UNCHANGED <<ColInputs, col_idx, col_columns, col_last_seen_table,
                   col_log>>
    /\ UNCHANGED <<tw_vars, gtb_vars, h_vars, bq_vars, rep_vars>>

----------------------------------------------------------------------------
\* The specifications.

InitTime == TwInit /\ GtbIdle /\ HIdle /\ BqIdle /\ RepIdle /\ ColIdle
NextTime ==
    \/ Construct
    \/ CallBuckets
    \/ CallMajorityBuckets
    \/ BucketsIterate
    \/ MajorityIterate
    \/ LoopReturn
SpecTime == InitTime /\ [][NextTime]_vars

InitBucket == GtbInit /\ TwIdle /\ HIdle /\ BqIdle /\ RepIdle /\ ColIdle
NextBucket == GetTimeBucket \/ GetTimeBucketAgain
SpecBucket == InitBucket /\ [][NextBucket]_vars

InitSkip == HInit /\ TwIdle /\ GtbIdle /\ BqIdle /\ RepIdle /\ ColIdle
NextSkip ==
    \/ \E s \in Millis, e \in Millis : UpdateState(s, e)
    \/ \E t \in 0..MaxMillis : ShouldSkipThisRun(t)
    \/ CreateCheckpoint
    \/ NextRun
SpecSkip == InitSkip /\ [][NextSkip]_vars

InitScan == BqInit /\ TwIdle /\ GtbIdle /\ HIdle /\ RepIdle /\ ColIdle
NextScan == RunQuery \/ TablesRow \/ ViewsRow \/ ScanEnd
SpecScan == InitScan /\ [][NextScan]_vars

InitReport == RepInit /\ TwIdle /\ GtbIdle /\ HIdle /\ BqIdle /\ ColIdle
NextReport ==
    \/ \E n \in EntityNames, t \in EntTypes : ReportEntityScanned(n, t)
    \/ \E n \in EntityNames : ReportEntityScannedDefault(n)
    \/ \E n \in EntityNames : ReportTagProcessed(n)
SpecReport == InitReport /\ [][NextReport]_vars

InitColumns == ColInit /\ TwIdle /\ GtbIdle /\ HIdle /\ BqIdle /\ RepIdle
NextColumns ==
    \/ DatasetQuery
    \/ TableQuery
    \/ DatasetRow
    \/ TableRow
    \/ ColumnsReturn
SpecColumns == InitColumns /\ [][NextColumns]_vars

----------------------------------------------------------------------------
\* Properties of the time-window configuration (SpecTime, SpecBucket).

\* The example window of the specification: DAY buckets,
\* start 2024-01-01T13:00Z (day 0), end 2024-01-03T05:00Z (day 2).
ExampleStart == datetime(0, 13, 0, 0, 0, utc)
ExampleEnd == datetime(2, 5, 0, 0, 0, utc)
ExampleConfig ==
    [bucket_duration |-> "DAY", start_time |-> ExampleStart,
     end_time |-> ExampleEnd]
Midnight(d) == datetime(d, 0, 0, 0, 0, utc)

InBuckets == tw_call = "buckets" /\ tw_pc \in {"loop", "returned"}
BucketsReturned == tw_call = "buckets" /\ tw_pc = "returned"
MajorityReturned == tw_call = "majority_buckets" /\ tw_pc = "returned"

\* C2 (as stated): for the example window buckets() returns exactly
\* [2024-01-01T00:00Z, 2024-01-02T00:00Z].
C2_ExampleTwoBuckets ==
    (BucketsReturned /\ tw_config = <<ExampleConfig>>)
        => tw_result = <<Midnight(0), Midnight(1)>>

\* C2 (amended): for the example window buckets() returns exactly
\* [2024-01-01T00:00Z, 2024-01-02T00:00Z, 2024-01-03T00:00Z]: the bucket of
\* 2024-01-03, which the window covers for its first five hours, is included.
C2_ExampleThreeBuckets ==
    (BucketsReturned /\ tw_config = <<ExampleConfig>>)
        => tw_result = <<Midnight(0), Midnight(1), Midnight(2)>>

\* buckets() has returned three buckets for the example window.
C2_Witness ==
    /\ BucketsReturned
    /\ tw_config = <<ExampleConfig>>
    /\ Len(tw_result) = 3

\* k bucket lengths
TdTimes(td, k) == timedelta(td.days * k, td.seconds * k, td.microseconds * k)

\* Half a bucket, written out: 30 minutes or 12 hours.
HalfBucket(bucketing) ==
    IF bucketing = "HOUR" THEN timedelta(0, 1800, 0) ELSE timedelta(0, 43200, 0)

\* The part of bucket [b, b + delta) that the window [start, end) covers.
Overlap(cfg, b) ==
    DtDiff(DtMin(cfg.end_time,
                 DtAdd(b, get_bucket_duration_delta(cfg.bucket_duration))),
           DtMax(cfg.start_time, b))

SeqRange(s) == {s[i] : i \in 1..Len(s)}

\* No window of the model holds more hour buckets than this.
MostBuckets == 24 * (MaxDay + 1)

\* The bucket starts floor(start_time) + k*delta, k >= 0, before end_time.
BucketStarts(cfg) ==
    LET first == get_time_bucket(cfg.start_time, cfg.bucket_duration)
        delta == get_bucket_duration_delta(cfg.bucket_duration)
    IN  {b \in {DtAdd(first, TdTimes(delta, k)) : k \in 0..MostBuckets} :
            DtLess(b, cfg.end_time)}

\* C3: majority_buckets() returns, in ascending order, exactly the bucket starts
\* floor(start_time) + k*delta before end_time whose overlap with the window is
\* at least half a bucket; exactly half is enough, less (11 hours of the
\* 2024-01-01 day bucket) is not.
C3_MajorityBuckets ==
    MajorityReturned =>
        LET cfg  == tw_config[1]
            half == HalfBucket(cfg.bucket_duration)
        IN  /\ SeqRange(tw_result) =
                   {b \in BucketStarts(cfg) : TdGeq(Overlap(cfg, b), half)}
            /\ \A i \in 1..(Len(tw_result) - 1) :
                   DtLess(tw_result[i], tw_result[i + 1])
            /\ \A b \in BucketStarts(cfg) :
                   Overlap(cfg, b) = half => b \in SeqRange(tw_result)
            /\ cfg = ExampleConfig => tw_result = <<Midnight(1)>>

\* A bucket covered for exactly half its length is in the result, and another
\* bucket of the window is not.
C3_Witness ==
    /\ MajorityReturned
    /\ \E b \in SeqRange(tw_result) :
           Overlap(tw_config[1], b) = HalfBucket(tw_config[1].bucket_duration)
    /\ BucketStarts(tw_config[1]) \ SeqRange(tw_result) # {}

\* C4: buckets() ends and returns exactly floor(start_time) + k*delta for
\* k = 0, 1, ... while that is strictly before end_time: ascending, without
\* gaps, partially covered buckets included, and empty when
\* floor(start_time) >= end_time. While it runs, every bucket collected is of
\* that form, curr_bucket is the next one, and the loop can go on or return.
C4_Buckets ==
    InBuckets =>
        LET cfg   == tw_config[1]
            delta == get_bucket_duration_delta(cfg.bucket_duration)
            first == get_time_bucket(cfg.start_time, cfg.bucket_duration)
            n     == Len(tw_result)
        IN  /\ tw_curr_bucket = DtAdd(first, TdTimes(delta, n))
            /\ n <= MostBuckets
            /\ n > 0 => /\ tw_result[n] = DtAdd(first, TdTimes(delta, n - 1))
                        /\ DtLess(tw_result[n], cfg.end_time)
                        /\ DtLess(tw_result[n], tw_curr_bucket)
            /\ tw_pc = "loop" => ENABLED (BucketsIterate \/ LoopReturn)
            /\ tw_pc = "returned" =>
                   /\ \A i \in 1..n :
                          /\ tw_result[i] = DtAdd(first, TdTimes(delta, i - 1))
                          /\ DtLess(tw_result[i], cfg.end_time)
                   /\ \A i \in 1..(n - 1) : DtLess(tw_result[i], tw_result[i + 1])
                   /\ ~DtLess(DtAdd(first, TdTimes(delta, n)), cfg.end_time)
                   /\ (n = 0) <=> ~DtLess(first, cfg.end_time)
                   /\ SeqRange(tw_result) = BucketStarts(cfg)

\* buckets() returned several buckets of a window that starts and ends inside
\* a bucket, so the first and the last are partially covered.
C4_Witness ==
    /\ BucketsReturned
    /\ Len(tw_result) >= 2
    /\ tw_result[1] # tw_config[1].start_time
    /\ DtLess(tw_result[Len(tw_result)], tw_config[1].end_time)
    /\ DtLess(tw_config[1].end_time,
              DtAdd(tw_result[Len(tw_result)],
                    get_bucket_duration_delta(tw_bucket)))

GivenTimes == {tw_end_in} \cup SeqRange(tw_start_in)

\* A config has been constructed (and perhaps a method called on it).
Constructed == tw_pc \in {"valid", "loop", "returned"}

\* C5 (as stated): construction fails with a validation error whenever
\* start_time or end_time is not in UTC, and succeeds with the values
\* unchanged when they are; every constructed config has both in UTC.
C5_UtcValidation ==
    tw_pc # "new" =>
        /\ (\E t \in GivenTimes : t.tzinfo # utc)
               => tw_pc = "error" /\ tw_error = "ValidationError"
        /\ (\A t \in GivenTimes : t.tzinfo = utc)
               => /\ Constructed
                  /\ tw_config[1].end_time = tw_end_in
                  /\ tw_start_in # <<>>
                         => tw_config[1].start_time = tw_start_in[1]
        /\ Constructed
               => /\ tw_config[1].start_time.tzinfo = utc
                  /\ tw_config[1].end_time.tzinfo = utc

\* C6: a start_time that is given is kept; one that is not given becomes the
\* bucket boundary with start_time <= end_time - delta < start_time + delta,
\* so start_time < end_time and delta <= end_time - start_time < 2*delta.
C6_DefaultStart ==
    Constructed =>
        LET cfg   == tw_config[1]
            delta == get_bucket_duration_delta(cfg.bucket_duration)
            s     == cfg.start_time
            back  == DtSubTd(cfg.end_time, delta)
            width == DtDiff(cfg.end_time, s)
        IN  /\ tw_start_in # <<>> => s = tw_start_in[1]
            /\ tw_start_in = <<>>
                   => /\ s = get_time_bucket(back, cfg.bucket_duration)
                      /\ s.minute = 0 /\ s.second = 0 /\ s.microsecond = 0
                      /\ cfg.bucket_duration = "DAY" => s.hour = 0
                      /\ ~DtLess(back, s)
                      /\ DtLess(back, DtAdd(s, delta))
                      /\ DtLess(s, cfg.end_time)
                      /\ TdGeq(width, delta)
                      /\ ~TdGeq(width, TdTimes(delta, 2))

\* A config built without start_time whose end_time is not a bucket boundary.
C6_Witness ==
    /\ tw_pc = "valid"
    /\ tw_start_in = <<>>
    /\ tw_end_in # get_time_bucket(tw_end_in, tw_bucket)
    /\ tw_config[1].start_time.day < tw_end_in.day

\* C7: get_time_bucket(t, bucketing) has the fields below the bucket unit
\* zeroed and the others kept, result <= t < result + delta, and
\* get_time_bucket of the result is the result.
C7_GetTimeBucket ==
    gtb_pc \in {"once", "twice"} =>
        LET r == gtb_result[1]
            t == gtb_original
        IN  /\ r.minute = 0 /\ r.second = 0 /\ r.microsecond = 0
            /\ gtb_bucketing = "DAY" => r.hour = 0
            /\ gtb_bucketing = "HOUR" => r.hour = t.hour
            /\ r.day = t.day
            /\ ~DtLess(t, r)
            /\ DtLess(t, DtAdd(r, get_bucket_duration_delta(gtb_bucketing)))
            /\ gtb_pc = "twice" => gtb_result[2] = r

\* get_time_bucket moved a timestamp with a nonzero hour to its day boundary,
\* and a second application has run.
C7_Witness ==
    /\ gtb_pc = "twice"
    /\ gtb_bucketing = "DAY"
    /\ gtb_original.hour # 0
    /\ gtb_original.microsecond # 0
    /\ gtb_result[1] # gtb_original

----------------------------------------------------------------------------
\* Properties of the redundant-run skip handler (SpecSkip).

ForceRerun ==
    stateful_ingestion_config # <<>>
        /\ stateful_ingestion_config[1].ignore_old_state
IgnoreNew ==
    stateful_ingestion_config # <<>>
        /\ stateful_ingestion_config[1].ignore_new_state
OwnLast == last_checkpoints[job_id]
OwnCur == cur_checkpoints[job_id]

\* C1: should_skip_this_run(t) returns true exactly when checkpointing is
\* enabled, force_rerun is not set, the job has a last checkpoint with a state,
\* and t <= that state's end_timestamp_millis (t equal to it included).
C1_SkipDecision ==
    h_op = "should_skip_this_run" =>
        /\ h_ret = << /\ checkpointing_enabled
                      /\ ~ForceRerun
                      /\ OwnLast # <<>>
                      /\ OwnLast[1].state # <<>>
                      /\ h_args[1] <= OwnLast[1].state[1].end_timestamp_millis >>
        /\ ( /\ checkpointing_enabled
             /\ ~ForceRerun
             /\ OwnLast # <<>>
             /\ OwnLast[1].state # <<>>
             /\ h_args[1] = OwnLast[1].state[1].end_timestamp_millis )
               => h_ret = <<TRUE>>

\* should_skip_this_run returned true for a start time equal to the stored end.
C1_Witness ==
    /\ h_op = "should_skip_this_run"
    /\ h_ret = <<TRUE>>
    /\ OwnLast # <<>>
    /\ h_args[1] = OwnLast[1].state[1].end_timestamp_millis
    /\ h_args[1] > INVALID_TIMESTAMP_VALUE

\* With checkpointing on and ignore_new_state off, the current checkpoint of
\* the job holds the arguments of the run's last update_state call.
C8_HoldsLastCall ==
    (h_last_update # <<>> /\ checkpointing_enabled /\ ~IgnoreNew) =>
        /\ OwnCur # <<>>
        /\ OwnCur[1].state =
               <<BaseUsageCheckpointState(h_last_update[1], h_last_update[2])>>
        /\ OwnCur[1].job_name = job_id
        /\ h_op = "update_state" => h_raised = "none"

\* One update_state call: it writes (start, end) into the job's current
\* checkpoint and nothing else, or, with checkpointing off or ignore_new_state
\* on, changes nothing and asks the provider for nothing.
C8_UpdateStep ==
    h_op' = "update_state" =>
        /\ last_checkpoints' = last_checkpoints
        /\ \A j \in JobIds \ {job_id} : cur_checkpoints'[j] = cur_checkpoints[j]
        /\ IF checkpointing_enabled /\ ~IgnoreNew
           THEN cur_checkpoints'[job_id][1].state =
                    <<BaseUsageCheckpointState(h_args'[1], h_args'[2])>>
           ELSE /\ cur_checkpoints' = cur_checkpoints
                /\ h_calls' = {}
                /\ h_raised' = "none"

\* C8: update_state(start, end) overwrites the timestamps of the job's current
\* checkpoint with (start, end) when checkpointing is enabled and
\* ignore_new_state is not set, so the state holds the arguments of the last
\* call; otherwise it changes nothing and does not read the current checkpoint.
C8_UpdateState == []C8_HoldsLastCall /\ [][C8_UpdateStep]_vars

\* update_state has overwritten the placeholder with a range (start < end).
C8_Witness ==
    /\ h_op = "update_state"
    /\ checkpointing_enabled /\ ~IgnoreNew
    /\ h_args[1] < h_args[2]
    /\ OwnCur # <<>>
    /\ OwnCur[1].state[1].begin_timestamp_millis = h_args[1]
    /\ OwnCur[1].state[1].end_timestamp_millis = h_args[2]

\* C9: in a run with checkpointing on and neither flag set, if the job's last
\* checkpoint comes from a run whose last update_state call was
\* update_state(s, e), should_skip_this_run(t) returns t <= e; if no earlier
\* run stored a checkpoint it returns false.
C9_SkipAcrossRuns ==
    ( /\ h_op = "should_skip_this_run"
      /\ checkpointing_enabled /\ ~ForceRerun /\ ~IgnoreNew ) =>
        /\ h_prev.update # <<>>
               => h_ret = <<h_args[1] <= h_prev.update[2]>>
        /\ ~h_prev.stored => h_ret = <<FALSE>>

\* A later run is not skipped: its start time is after the end that the earlier
\* run stored, though not after the begin it stored.
C9_Witness ==
    /\ h_op = "should_skip_this_run"
    /\ run_id > 1
    /\ checkpointing_enabled /\ ~ForceRerun /\ ~IgnoreNew
    /\ h_prev.update # <<>>
    /\ h_prev.update[1] > h_prev.update[2]
    /\ h_args[1] > h_prev.update[2]
    /\ h_args[1] <= h_prev.update[1]
    /\ h_ret = <<FALSE>>

\* C17: create_checkpoint returns None exactly when checkpointing is disabled
\* or ignore_new_state is set; otherwise it returns a checkpoint of the
\* handler's job id, pipeline name and run id whose two timestamps are the
\* placeholder 1. ignore_old_state changes neither this nor what update_state
\* does: with it set or not, update_state writes its arguments exactly when
\* checkpointing is enabled and ignore_new_state is not set.
C17_CreateCheckpoint ==
    /\ h_op = "create_checkpoint" =>
          /\ h_raised = "none"
          /\ (h_ret[1] = <<>>) <=> (~checkpointing_enabled \/ IgnoreNew)
          /\ h_ret[1] # <<>> =>
                h_ret[1][1] =
                    [job_name |-> job_id,
                     pipeline_name |-> pipeline_name[1],
                     run_id |-> run_id,
                     state |-> <<[begin_timestamp_millis |-> 1,
                                  end_timestamp_millis |-> 1]>>]
    /\ h_op = "update_state" =>
          IF checkpointing_enabled /\ ~IgnoreNew
          THEN /\ OwnCur # <<>>
               /\ OwnCur[1].state =
                      <<BaseUsageCheckpointState(h_args[1], h_args[2])>>
          ELSE /\ OwnCur = <<>>
               /\ h_calls = {}

\* create_checkpoint returned a checkpoint in a later run although
\* ignore_old_state was set.
C17_Witness ==
    /\ h_op = "create_checkpoint"
    /\ ForceRerun /\ ~IgnoreNew /\ checkpointing_enabled
    /\ run_id > 1
    /\ h_ret[1] # <<>>
    /\ h_ret[1][1].run_id = run_id
    /\ h_ret[1][1].state[1].end_timestamp_millis = INVALID_TIMESTAMP_VALUE

\* One should_skip_this_run call.
C18_SkipStep ==
    h_op' = "should_skip_this_run" =>
        /\ last_checkpoints' = last_checkpoints
        /\ cur_checkpoints' = cur_checkpoints
        /\ HandlerFields' = HandlerFields
        /\ (~checkpointing_enabled \/ ForceRerun) =>
              /\ h_ret' = <<FALSE>>
              /\ h_calls' = {}

\* C18: should_skip_this_run is read-only: it leaves the last checkpoints, the
\* current checkpoints and the handler's fields as they were, and with
\* checkpointing disabled or ignore_old_state set it returns false without
\* asking the provider for the last checkpoint.
C18_ReadOnly == [][C18_SkipStep]_vars

\* should_skip_this_run returned false under ignore_old_state although the
\* last checkpoint covers the start time; the checkpoints are still there.
C18_Witness ==
    /\ h_op = "should_skip_this_run"
    /\ checkpointing_enabled /\ ForceRerun
    /\ h_ret = <<FALSE>>
    /\ h_calls = {}
    /\ OwnLast # <<>>
    /\ OwnLast[1].state # <<>>
    /\ h_args[1] <= OwnLast[1].state[1].end_timestamp_millis
    /\ OwnCur # <<>>

----------------------------------------------------------------------------
\* Properties of the BigQuery table and view scans (SpecScan).

\* The rows the for loop has dealt with.
Scanned == SubSeq(bq_cur, 1, bq_idx - 1)

RECURSIVE NamesWhere(_, _)
\* The table names of the rows of s that are malformed (bad) or not, in order.
NamesWhere(s, bad) ==
    IF s = <<>> THEN <<>>
    ELSE IF Head(s).malformed = bad
         THEN <<Head(s).table_name>> \o NamesWhere(Tail(s), bad)
         ELSE NamesWhere(Tail(s), bad)

YieldedNames == [i \in 1..Len(bq_yielded) |-> bq_yielded[i].name]

WarningFor(name) ==
    "Error while processing "
        \o (IF bq_fn = "get_tables_for_dataset" THEN "table " ELSE "view ")
        \o "project.dataset." \o name

ReportFor(name) ==
    "Failed to get "
        \o (IF bq_fn = "get_tables_for_dataset" THEN "table " ELSE "view ")
        \o "project.dataset." \o name

\* C10: in both scans a row whose mapping fails is skipped with a warning (and
\* a report warning when a report was passed) and the scan goes on: what has
\* been yielded is the rows dealt with that map, in result order; the scan
\* never ends in an exception once the query succeeded, and it ends only
\* after the last row.
C10_RowFailureSkipped ==
    bq_pc \in {"iter", "done", "raised"} =>
        LET failed == NamesWhere(Scanned, TRUE)
        IN  /\ bq_pc = "raised" => ~bq_query_ok /\ bq_idx = 1
            /\ bq_pc = "done" => bq_idx = Len(bq_cur) + 1
            /\ YieldedNames = NamesWhere(Scanned, FALSE)
            /\ bq_log = [i \in 1..Len(failed) |-> WarningFor(failed[i])]
            /\ bq_warnings =
                   IF bq_report
                   THEN [i \in 1..Len(failed) |-> ReportFor(failed[i])]
                   ELSE <<>>

\* A scan ended after a malformed row followed by a good one: the good one was
\* yielded and the malformed one reported.
C10_Witness ==
    /\ bq_pc = "done"
    /\ bq_report
    /\ Len(bq_cur) >= 2
    /\ bq_cur[1].malformed
    /\ ~bq_cur[Len(bq_cur)].malformed
    /\ Len(bq_yielded) >= 1
    /\ bq_yielded[Len(bq_yielded)].name = bq_cur[Len(bq_cur)].table_name
    /\ Len(bq_warnings) >= 1

----------------------------------------------------------------------------
\* Properties of SnowflakeV2Report (SpecReport).

\* The step is a report_entity_scanned call with this ent_type (given or by
\* default).
ScannedCall(ent_type) ==
    /\ rep_calls' = rep_calls + 1
    /\ rep_op'[1] = "report_entity_scanned"
    /\ rep_op'[3] \in (IF ent_type = default_ent_type
                       THEN {<<>>, <<ent_type>>} ELSE {<<ent_type>>})

C14_TagCount ==
    /\ tags_scanned = Cardinality(rep_tag_names)
    /\ tags_scanned = Cardinality(scanned_tags)

\* Reporting a tag that was reported before changes neither counter nor set;
\* a new one adds 1 and the name.
C14_TagStep ==
    ScannedCall("tag") =>
        IF rep_op'[2] \in rep_tag_names
        THEN tags_scanned' = tags_scanned /\ scanned_tags' = scanned_tags
        ELSE /\ tags_scanned' = tags_scanned + 1
             /\ scanned_tags' = scanned_tags \cup {rep_op'[2]}

\* C14: after any sequence of report_entity_scanned calls tags_scanned is the
\* number of distinct names reported with ent_type "tag" and the size of
\* _scanned_tags; a name reported again changes neither the counter nor the
\* set.
C14_TagsCountedOnce == []C14_TagCount /\ [][C14_TagStep]_vars

\* A tag was reported twice, and another once.
C14_Witness ==
    /\ rep_count["tag"] = 3
    /\ tags_scanned = 2
    /\ scanned_tags = EntityNames

C15_Counts ==
    /\ tables_scanned = rep_count["table"]
    /\ views_scanned = rep_count["view"]
    /\ schemas_scanned = rep_count["schema"]
    /\ databases_scanned = rep_count["database"]

\* What the step adds to the four counters, as <<table, view, schema, database>>.
CounterSteps ==
    <<tables_scanned' - tables_scanned, views_scanned' - views_scanned,
      schemas_scanned' - schemas_scanned,
      databases_scanned' - databases_scanned>>

TagFieldsKept ==
    /\ tags_scanned' = tags_scanned
    /\ scanned_tags' = scanned_tags
    /\ processed_tags' = processed_tags

C15_CounterStep ==
    /\ ScannedCall("table") => CounterSteps = <<1, 0, 0, 0>> /\ TagFieldsKept
    /\ ScannedCall("view") => CounterSteps = <<0, 1, 0, 0>> /\ TagFieldsKept
    /\ ScannedCall("schema") => CounterSteps = <<0, 0, 1, 0>> /\ TagFieldsKept
    /\ ScannedCall("database") =>
           CounterSteps = <<0, 0, 0, 1>> /\ TagFieldsKept

\* C15: each of tables_scanned, views_scanned, schemas_scanned and
\* databases_scanned is the number of report_entity_scanned calls made with
\* its ent_type (repeated names count again, a call without ent_type counts as
\* "table"); such a call adds 1 to its own counter and leaves the other
\* counters, tags_scanned, _scanned_tags and _processed_tags unchanged.
C15_EntityCounters == []C15_Counts /\ [][C15_CounterStep]_vars

\* Two views and then, without ent_type, a table were reported on a report
\* that has a processed tag.
C15_Witness ==
    /\ rep_calls = MaxCalls
    /\ views_scanned = 2
    /\ tables_scanned = 1
    /\ rep_op = <<"report_entity_scanned", "n1", <<>> >>
    /\ rep_tag_names = {}
    /\ processed_tags = {"n1"}

C16_UnknownStep ==
    ( /\ rep_calls' = rep_calls + 1
      /\ rep_op'[1] = "report_entity_scanned"
      /\ rep_op'[3] # <<>>
      /\ rep_op'[3][1] \notin KnownEntTypes ) =>
        /\ rep_raised' = "KeyError"
        /\ rep_fields' = rep_fields

\* C16: report_entity_scanned with an ent_type other than "table", "view",
\* "schema", "database" or "tag" raises KeyError and leaves every counter and
\* both tag sets unchanged.
C16_UnknownEntity == [][C16_UnknownStep]_vars

\* An unknown ent_type was reported after a table and a tag.
C16_Witness ==
    /\ rep_raised = "KeyError"
    /\ rep_op = <<"report_entity_scanned", "n2", <<"column">> >>
    /\ tables_scanned = 1
    /\ scanned_tags = {"n2"}

----------------------------------------------------------------------------
\* Properties of the BigQuery column fetches (SpecColumns).

\* The rows of the result that belong to the table, in result order.
RowsOf(table_name) ==
    LET OfTable(r) == r.table_name = table_name
    IN  SelectSeq(col_cur, OfTable)

Min(a, b) == IF a < b THEN a ELSE b

\* The first k rows of the table, as columns.
FirstColumns(table_name, k) ==
    [i \in 1..Min(k, Len(RowsOf(table_name))) |->
        BigqueryColumn(RowsOf(table_name)[i])]

PositiveLimit == col_limit # <<>> /\ col_limit[1] > 0

TableReturned == col_pc = "returned" /\ col_fn = "get_columns_for_table"

DatasetReturned ==
    /\ col_pc = "returned"
    /\ col_fn = "get_columns_for_dataset"
    /\ col_query_ok

\* C11: get_columns_for_table with a positive column_limit returns the first
\* column_limit rows of the result as columns, in order, and no more than
\* column_limit columns.
C11_TableTruncated ==
    (TableReturned /\ PositiveLimit) =>
        /\ Len(col_ret.value) <= col_limit[1]
        /\ col_ret.value = FirstColumns(table_identifier_table, col_limit[1])

\* C12: get_columns_for_dataset with a positive column_limit returns for every
\* table of the result exactly the first min(n, column_limit) of its n rows,
\* in result order, so no list is longer than column_limit; with
\* column_limit = 0 every row is kept. A table without rows has no entry.
C12_DatasetTruncated ==
    DatasetReturned =>
        /\ col_ret.kind = "dict"
        /\ DOMAIN col_ret.value = {t \in TableNames : RowsOf(t) # <<>>}
        /\ \A t \in DOMAIN col_ret.value :
              IF col_limit[1] > 0
              THEN /\ col_ret.value[t] = FirstColumns(t, col_limit[1])
                   /\ Len(col_ret.value[t]) <= col_limit[1]
              ELSE col_ret.value[t] = FirstColumns(t, Len(RowsOf(t)))

\* Rows of two tables interleave, both tables have more rows than the limit,
\* and what is kept of the second table is its first rows in their order.
C12_Witness ==
    /\ DatasetReturned
    /\ col_limit = <<2>>
    /\ Len(col_cur) = 5
    /\ col_cur[1].table_name = "b"
    /\ col_cur[2].table_name = "a"
    /\ col_cur[3].table_name = "b"
    /\ Len(RowsOf("b")) = 3
    /\ col_cur[1].column_name = "y"
    /\ col_cur[3].column_name = "x"
    /\ Len(col_ret.value["b"]) = 2
    /\ col_ret.value["b"][1].name = "y"
    /\ col_ret.value["b"][2].name = "x"

\* How often the limit warning was logged for the table.
LimitWarnings(table_name) ==
    Cardinality({i \in 1..Len(col_log) :
                     col_log[i] = LimitWarning(table_name)})

\* The rows of every table are consecutive, as the ORDER BY of the columns
\* queries returns them.
Grouped(rows) ==
    \A i, j, k \in 1..Len(rows) :
        (i < j /\ j < k /\ rows[i].table_name = rows[k].table_name)
            => rows[j].table_name = rows[i].table_name

WarnedOncePerLongTable ==
    \A t \in TableNames :
        LimitWarnings(t) =
            IF Len(RowsOf(t)) > col_limit[1] THEN 1 ELSE 0

\* C13 as claimed, for a positive column_limit: for every sequence of result
\* rows, also an interleaved one, the limit warning is logged exactly once for
\* each table with more than column_limit rows and never for another table.
C13_WarnedOnceAnyOrder ==
    (DatasetReturned /\ PositiveLimit) => WarnedOncePerLongTable

\* C13 amended: when the rows of each table are consecutive in the result (the
\* order the query's ORDER BY gives), the limit warning is logged exactly once
\* for each table with more than column_limit rows and never for a table with
\* column_limit rows or fewer; with column_limit = 0 it is never logged.
C13_WarnedOnceWhenGrouped ==
    DatasetReturned =>
        IF PositiveLimit
        THEN Grouped(col_cur) => WarnedOncePerLongTable
        ELSE \A t \in TableNames : LimitWarnings(t) = 0

\* Three rows of one table and then two of another with limit 1: three rows
\* were dropped and two warnings logged, one per table.
C13_Witness ==
    /\ DatasetReturned
    /\ col_limit = <<1>>
    /\ Grouped(col_cur)
    /\ Len(RowsOf("a")) = 3
    /\ Len(RowsOf("b")) = 2
    /\ col_cur[1].table_name = "a"
    /\ col_log = <<LimitWarning("a"), LimitWarning("b")>>

\* C19: get_columns_for_dataset returns None, with no exception and nothing
\* of a result, when the columns query fails, and a mapping from table name to
\* column list (possibly empty) when the query succeeds.
C19_NoneOnQueryFailure ==
    col_fn = "get_columns_for_dataset" =>
        /\ col_pc # "raised"
        /\ (col_pc \in {"iter", "returned"} /\ ~col_query_ok) =>
              /\ col_pc = "returned"
              /\ col_ret = Returned("None", <<>>)
              /\ col_columns = EmptyDict
              /\ col_idx = 1
        /\ (col_pc = "returned" /\ col_query_ok) =>
              /\ col_ret.kind = "dict"
              /\ DOMAIN col_ret.value \subseteq TableNames
              /\ \A t \in DOMAIN col_ret.value : col_ret.value[t] # <<>>

\* The query failed although there were rows to fetch: None came back and the
\* failure was logged.
C19_Witness ==
    /\ col_fn = "get_columns_for_dataset"
    /\ col_pc = "returned"
    /\ ~col_query_ok
    /\ Len(col_cur) > 0
    /\ col_ret.kind = "None"
    /\ col_log = <<QueryFailedWarning>>

====
